---- MODULE Spec2Model ----
(***************************************************************************)
(* A model of l10n.py: ParseLocalesFile, the L10nMixin constructor,        *)
(* getLocales, createL10nBuilds, _cbLoadedLocales and                      *)
(* TriggerableL10n.trigger.                                                *)
(*                                                                         *)
(* Python strings that the code inspects character by character (the text  *)
(* of a locales file, locale ids, platform names) are sequences of         *)
(* one-character strings.  Python's None is the string "None" for values   *)
(* the code only passes along (branch, revision, baseTag) and an option    *)
(* record [kind, val] for values whose truth the code tests.               *)
(***************************************************************************)
EXTENDS Integers, Sequences, FiniteSets, TLC

VARIABLES
  text,      \* ParseSpec: the data handed to ParseLocalesFile
  parsed,    \* ParseSpec: what ParseLocalesFile did with it
  args,      \* the keyword arguments the constructor was called with
  self,      \* the L10nMixin object (its attributes), or how construction ended
  ev,        \* per triggering event: the createL10nBuilds task and its calls on the host
  last       \* what the latest direct call of getLocales returned

vars == <<text, parsed, args, self, ev, last>>

(***************************************************************************)
(* Bounds                                                                  *)
(***************************************************************************)
MaxLen == 7        \* longest generated locales text, in characters
MaxEvents == 2     \* triggering events whose fan-outs may overlap

(***************************************************************************)
(* Strings                                                                 *)
(***************************************************************************)
Range(s) == {s[i] : i \in 1..Len(s)}

\* the characters str.strip() and str.split() treat as whitespace
Whitespace == {" ", "\t", "\n", "\r"}

\* str.startswith
StartsWith(s, p) == Len(s) >= Len(p) /\ SubSeq(s, 1, Len(p)) = p

RECURSIVE LStrip(_)
LStrip(s) == IF s /= <<>> /\ Head(s) \in Whitespace THEN LStrip(Tail(s)) ELSE s

RECURSIVE RStrip(_)
RStrip(s) ==
  IF s /= <<>> /\ s[Len(s)] \in Whitespace THEN RStrip(SubSeq(s, 1, Len(s) - 1)) ELSE s

\* data.strip()
Strip(s) == RStrip(LStrip(s))

\* data.split('\n'): every separator cuts, empty pieces are kept
RECURSIVE SplitLines(_, _)
SplitLines(s, cur) ==
  IF s = <<>> THEN <<cur>>
  ELSE IF Head(s) = "\n" THEN <<cur>> \o SplitLines(Tail(s), <<>>)
  ELSE SplitLines(Tail(s), Append(cur, Head(s)))

\* line.split(): cut at runs of whitespace, no empty token
RECURSIVE SplitWords(_, _)
SplitWords(s, cur) ==
  IF s = <<>> THEN (IF cur = <<>> THEN <<>> ELSE <<cur>>)
  ELSE IF Head(s) \in Whitespace
       THEN (IF cur = <<>> THEN <<>> ELSE <<cur>>) \o SplitWords(Tail(s), <<>>)
       ELSE SplitWords(Tail(s), Append(cur, Head(s)))

(***************************************************************************)
(* ParseLocalesFile                                                        *)
(***************************************************************************)
\* a raised exception / a returned value
Raise(e) == [error |-> e, value |-> <<>>]
Return(v) == [error |-> "None", value |-> v]

\* the list after "for plat in buildPlatforms: if plat not in l: l.append(plat)"
RECURSIVE AppendMissing(_, _)
AppendMissing(l, plats) ==
  IF plats = <<>> THEN l
  ELSE AppendMissing(IF Head(plats) \in Range(l) THEN l ELSE Append(l, Head(plats)),
                     Tail(plats))

\* a plausible slip: a repeated locale's line replaces the recorded platforms
ParseLineOverwrite(locales, line) ==
  LET splitLine == SplitWords(line, <<>>) IN
  IF splitLine = <<>> THEN Raise("IndexError")
  ELSE Return([k \in DOMAIN locales \cup {splitLine[1]} |->
                 IF k = splitLine[1] THEN Tail(splitLine) ELSE locales[k]])

\* one pass of the loop body over a line
ParseLine(locales, line) ==
  LET splitLine == SplitWords(line, <<>>) IN
  IF splitLine = <<>> THEN Raise("IndexError")      \* splitLine[0] of an empty list
  ELSE LET locale == splitLine[1]
           buildPlatforms == Tail(splitLine)
       IN  Return([k \in DOMAIN locales \cup {locale} |->
                     IF k /= locale THEN locales[k]
                     ELSE IF locale \in DOMAIN locales
                          THEN AppendMissing(locales[locale], buildPlatforms)
                          ELSE buildPlatforms])

RECURSIVE ParseLoop(_, _)
ParseLoop(locales, lines) ==
  IF lines = <<>> THEN Return(locales)
  ELSE LET r == ParseLine(locales, Head(lines)) IN
       IF r.error /= "None" THEN r ELSE ParseLoop(r.value, Tail(lines))

ParseLocalesFile(data) == ParseLoop(<<>>, SplitLines(Strip(data), <<>>))

(***************************************************************************)
(* Values the controller is exercised with                                 *)
(***************************************************************************)
SP == <<" ">>
NL == <<"\n">>

enUS == <<"e", "n", "-", "U", "S">>
fr == <<"f", "r">>
ja == <<"j", "a">>
de == <<"d", "e">>
it == <<"i", "t">>

linux == <<"l", "i", "n", "u", "x">>
linux64 == linux \o <<"6", "4">>
win32 == <<"w", "i", "n", "3", "2">>
win64 == <<"w", "i", "n", "6", "4">>
macosx == <<"m", "a", "c", "o", "s", "x">>
macosx64 == macosx \o <<"6", "4">>
osx == <<"o", "s", "x">>
osx64 == osx \o <<"6", "4">>
win16 == <<"w", "i", "n", "1", "6">>      \* a platform the constructor does not know

\* the tuple of the platform assert
SupportedPlatforms == {linux, linux64, win32, win64, macosx, macosx64, osx, osx64}

\* None, or a value whose truth the code tests
None == [kind |-> "None", val |-> <<>>]
Some(k, v) == [kind |-> k, val |-> v]
\* Python truth of None, '' and {} is False
Truthy(o) == o.kind /= "None" /\ o.val /= <<>>
\* "x or y" on plain strings
StrTruthy(x) == x \notin {"None", ""}

\* locales={...} arguments
NoLocales == [l \in {} |-> <<>>]
SpecLocales == [l \in {enUS, fr, ja} |-> IF l = ja THEN <<linux>> ELSE <<>>]
PlatformLocales ==
  [l \in {de, ja, fr, it} |->
     IF l = de THEN <<win32, osx64>>
     ELSE IF l = ja THEN <<macosx64>>
     ELSE IF l = it THEN <<win32>> ELSE <<>>]

\* defaults of the constructor's signature
DefaultRepo == "https://hg.mozilla.org/"
DefaultLocalesFile == "browser/locales/all-locales"
RevisionSlot == "%(revision)s"
\* a localesURL argument, as the pieces around its revision placeholder
ShippedURL == <<"http://host/", RevisionSlot, "/shipped-locales">>

\* Properties: name -> (value, source)
NoProps == [k \in {} |-> <<>>]
Prop(v, src) == [value |-> v, source |-> src]
SchedulerProps ==
  [k \in {"scheduler", "locale"} |->
     IF k = "locale" THEN Prop(de, "Scheduler") ELSE Prop("sched", "Scheduler")]
RevisionProps ==
  [k \in {"en_revision", "l10n_revision", "buildid"} |-> Prop("abc123", "Trigger")]
LocaleProps ==
  [k \in {"locale", "en_revision"} |->
     IF k = "locale" THEN Prop(it, "Trigger") ELSE Prop("abc123", "Trigger")]

(***************************************************************************)
(* L10nMixin.__init__                                                      *)
(***************************************************************************)
\* the two startswith rewrites, in the order the constructor applies them
NormalizePlatform(platform) ==
  LET p1 == IF StartsWith(platform, macosx) THEN osx ELSE platform
  IN  IF StartsWith(p1, linux) THEN linux ELSE p1

\* the object after __init__, or the failed assert.  self.properties is the
\* attribute the host scheduler base class gives the object.
L10nMixin_init(a) ==
  IF ~Truthy(a.localesURL) /\ a.branch = "None" THEN Raise("AssertionError")
  ELSE IF a.platform \notin SupportedPlatforms THEN Raise("AssertionError")
  ELSE Return([branch |-> a.branch, baseTag |-> a.baseTag,
               localesURL |-> IF Truthy(a.localesURL) THEN a.localesURL.val
                              ELSE <<a.repo, a.branch, "/raw-file/", RevisionSlot, "/",
                                     a.localesFile>>,
               locales |-> a.locales,
               platform |-> NormalizePlatform(a.platform),
               properties |-> a.properties])

\* keyword arguments of a constructor call
Args(platforms, branches, baseTags, locales, urls, props) ==
  [platform : platforms, repo : {DefaultRepo}, branch : branches, baseTag : baseTags,
   localesFile : {DefaultLocalesFile}, locales : locales, localesURL : urls,
   properties : props]

AllArgs ==
  Args(SupportedPlatforms \cup {win16}, {"None", "mozilla-central"},
       {"default", "FIREFOX_RELEASE"},
       {None, Some("dict", NoLocales), Some("dict", SpecLocales), Some("dict", PlatformLocales)},
       {None, Some("str", <<>>), Some("str", ShippedURL)},
       {NoProps, SchedulerProps})

(***************************************************************************)
(* getLocales, _cbLoadedLocales                                            *)
(***************************************************************************)
\* self.localesURL % {'revision': revision}
Expand(template, revision) ==
  [i \in 1..Len(template) |-> IF template[i] = RevisionSlot THEN revision ELSE template[i]]

\* a plausible slip: hand out a copy with the reference locale already dropped
getLocalesFiltered(s, revision) ==
  IF Truthy(s.locales)
  THEN [kind |-> "dict",
        val |-> [l \in DOMAIN s.locales.val \ {enUS} |-> s.locales.val[l]],
        url |-> <<>>]
  ELSE [kind |-> "Deferred", val |-> <<>>,
        url |-> Expand(s.localesURL, IF StrTruthy(revision) THEN revision ELSE s.baseTag)]

\* the configured locales, or a Deferred on the page getPage was asked for
getLocales(s, revision) ==
  IF Truthy(s.locales)
  THEN [kind |-> "dict", val |-> s.locales.val, url |-> <<>>]
  ELSE [kind |-> "Deferred", val |-> <<>>,
        url |-> Expand(s.localesURL, IF StrTruthy(revision) THEN revision ELSE s.baseTag)]

\* a plausible slip: the reference locale is not left out
ShouldSkipKeepsEnUS(s, locales, locale) ==
  Len(locales[locale]) > 0 /\ s.platform \notin Range(locales[locale])

\* the two "continue" tests of the loop
ShouldSkip(s, locales, locale) ==
  \/ locale = enUS
  \/ Len(locales[locale]) > 0 /\ s.platform \notin Range(locales[locale])

\* Properties.updateFromProperties / update / setProperty
UpdateFromProperties(props, other) ==
  [k \in DOMAIN props \cup DOMAIN other |-> IF k \in DOMAIN other THEN other[k] ELSE props[k]]
SetProperty(props, name, value, source) ==
  [k \in DOMAIN props \cup {name} |-> IF k = name THEN Prop(value, source) ELSE props[k]]

\* a plausible slip: the caller's properties are merged after the forced ones
BuildPropsCallerLast(s, set_props, locale) ==
  LET p1 == UpdateFromProperties(NoProps, s.properties)
      p2 == SetProperty(p1, "locale", locale, "Scheduler")
      p3 == SetProperty(p2, "en_revision", s.baseTag, "L10nMixin")
      p4 == SetProperty(p3, "l10n_revision", s.baseTag, "L10nMixin")
  IN  IF set_props.kind /= "None" THEN UpdateFromProperties(p4, set_props.val) ELSE p4

\* the property set of one locale's buildset.  "if set_props:" is read as
\* "is not None": merging an empty Properties changes nothing either way.
BuildProps(s, set_props, locale) ==
  LET p0 == UpdateFromProperties(NoProps, s.properties)
      p1 == IF set_props.kind /= "None" THEN UpdateFromProperties(p0, set_props.val) ELSE p0
      p2 == SetProperty(p1, "locale", locale, "Scheduler")
      p3 == SetProperty(p2, "en_revision", s.baseTag, "L10nMixin")
  IN  SetProperty(p3, "l10n_revision", s.baseTag, "L10nMixin")

\* the reason TriggerableL10n.trigger passes on
TriggerReason ==
  "This build was triggered by the successful completion of the en-US nightly."

(***************************************************************************)
(* State                                                                   *)
(***************************************************************************)
Events == 1..MaxEvents

\* no createL10nBuilds task
Idle ==
  [pc |-> "idle", revision |-> "None", set_props |-> None, url |-> <<>>, nfetch |-> 0,
   page |-> <<>>, locales |-> <<>>, todo |-> {}, sub |-> <<>>, scopes |-> 0,
   error |-> "None"]

NotRun == Raise("NotRun")
Unbuilt == Raise("unbuilt")
NoArgs == [platform |-> <<>>, repo |-> "None", branch |-> "None", baseTag |-> "None",
           localesFile |-> "None", locales |-> None, localesURL |-> None,
           properties |-> NoProps]
NotCalled == [kind |-> "NotCalled", val |-> <<>>, url |-> <<>>]

Built == self.error = "None"

Init ==
  /\ text = <<>>
  /\ parsed = NotRun
  /\ args = NoArgs
  /\ self = Unbuilt
  /\ ev = [e \in Events |-> Idle]
  /\ last = NotCalled

(***************************************************************************)
(* Construction and direct calls                                           *)
(***************************************************************************)
\* L10nMixin(**a) for some a of argset
Construct(argset) ==
  /\ self = Unbuilt
  /\ \E a \in argset :
       /\ args' = a
       /\ self' = L10nMixin_init(a)
  /\ UNCHANGED <<text, parsed, ev, last>>

\* some caller asks the object for its locales
getLocalesCall ==
  /\ Built
  /\ \E revision \in {"None", "rev1"} : last' = getLocales(self.value, revision)
  /\ UNCHANGED <<text, parsed, args, self, ev>>

(***************************************************************************)
(* createL10nBuilds: one task per triggering event                         *)
(***************************************************************************)
\* the callback of createL10nBuilds: parent.db.runInteraction(_cbLoadedLocales, locales, ...)
RunInteraction(task, locales) ==
  [task EXCEPT !.pc = "interaction", !.locales = locales, !.todo = DOMAIN locales,
               !.scopes = @ + 1]

\* the task as createL10nBuilds leaves it when it returns its Deferred
createL10nBuilds(s, revision, set_props) ==
  LET r == getLocales(s, revision)
      task == [Idle EXCEPT !.revision = revision, !.set_props = set_props]
  IN  IF r.kind = "dict"
      THEN RunInteraction(task, r.val)
      ELSE [task EXCEPT !.pc = "fetching", !.url = r.url, !.nfetch = @ + 1]

\* TriggerableL10n.trigger(ss, set_props), ss.revision and set_props from choices
trigger(e, choices) ==
  /\ Built
  /\ ev[e].pc = "idle"
  /\ \E c \in choices :
       ev' = [ev EXCEPT ![e] = createL10nBuilds(self.value, c.revision, c.set_props)]
  /\ UNCHANGED <<text, parsed, args, self, last>>

\* a plausible slip: the parsed page is kept on the object for later events
FetchSucceedsCaching(e, pages) ==
  /\ ev[e].pc = "fetching"
  /\ \E page \in pages :
       LET r == ParseLocalesFile(page) IN
       /\ ev' = [ev EXCEPT ![e] =
                   IF r.error /= "None"
                   THEN [@ EXCEPT !.pc = "failed", !.page = page, !.error = r.error]
                   ELSE RunInteraction([@ EXCEPT !.page = page], r.value)]
       /\ self' = IF r.error /= "None" THEN self
                  ELSE [self EXCEPT !.value.locales = Some("dict", r.value)]
  /\ UNCHANGED <<text, parsed, args, last>>

\* getPage delivers a page: it is parsed, and the callback asks for the interaction
FetchSucceeds(e, pages) ==
  /\ ev[e].pc = "fetching"
  /\ \E page \in pages :
       LET r == ParseLocalesFile(page) IN
       ev' = [ev EXCEPT ![e] =
                IF r.error /= "None"
                THEN [@ EXCEPT !.pc = "failed", !.page = page, !.error = r.error]
                ELSE RunInteraction([@ EXCEPT !.page = page], r.value)]
  /\ UNCHANGED <<text, parsed, args, self, last>>

\* a plausible slip: an errback that answers a failed fetch with no locales
FetchFailsSwallowed(e) ==
  /\ ev[e].pc = "fetching"
  /\ ev' = [ev EXCEPT ![e] = RunInteraction([@ EXCEPT !.error = "FetchError"], NoLocales)]
  /\ UNCHANGED <<text, parsed, args, self, last>>

\* getPage fails (transport error, or the 5 minute timeout): the Deferred
\* carries the failure past the callback
FetchFails(e) ==
  /\ ev[e].pc = "fetching"
  /\ ev' = [ev EXCEPT ![e].pc = "failed", ![e].error = "FetchError"]
  /\ UNCHANGED <<text, parsed, args, self, last>>

(***************************************************************************)
(* _cbLoadedLocales, one pass of its loop at a time.  The order in which   *)
(* the dictionary hands out its keys is not fixed.                         *)
(***************************************************************************)
Skip(e) ==
  /\ ev[e].pc = "interaction"
  /\ \E locale \in ev[e].todo :
       /\ ShouldSkip(self.value, ev[e].locales, locale)
       /\ ev' = [ev EXCEPT ![e].todo = @ \ {locale}]
  /\ UNCHANGED <<text, parsed, args, self, last>>

\* the call create_buildset(ssid, reason, t, props=props) of one locale
Buildset(s, task, locale) ==
  [locale |-> locale, branch |-> s.branch, reason |-> TriggerReason, t |-> task.scopes,
   props |-> BuildProps(s, task.set_props, locale)]

Submit(e) ==
  /\ ev[e].pc = "interaction"
  /\ \E locale \in ev[e].todo :
       /\ ~ShouldSkip(self.value, ev[e].locales, locale)
       /\ ev' = [ev EXCEPT ![e].todo = @ \ {locale},
                           ![e].sub = Append(@, Buildset(self.value, ev[e], locale))]
  /\ UNCHANGED <<text, parsed, args, self, last>>

\* a plausible slip: the failure is noted and the loop goes on
SubmitFailsContinues(e) ==
  /\ ev[e].pc = "interaction"
  /\ \E locale \in ev[e].todo :
       /\ ~ShouldSkip(self.value, ev[e].locales, locale)
       /\ ev' = [ev EXCEPT ![e].todo = @ \ {locale}, ![e].error = "EnqueueError"]
  /\ UNCHANGED <<text, parsed, args, self, last>>

\* db.get_sourcestampid or create_buildset raises: the exception leaves the loop
SubmitFails(e) ==
  /\ ev[e].pc = "interaction"
  /\ \E locale \in ev[e].todo :
       /\ ~ShouldSkip(self.value, ev[e].locales, locale)
       /\ ev' = [ev EXCEPT ![e].pc = "failed", ![e].error = "EnqueueError"]
  /\ UNCHANGED <<text, parsed, args, self, last>>

\* the loop is through: the interaction ends and the Deferred fires
Finish(e) ==
  /\ ev[e].pc = "interaction"
  /\ ev[e].todo = {}
  /\ ev' = [ev EXCEPT ![e].pc = "done"]
  /\ UNCHANGED <<text, parsed, args, self, last>>

\* the Deferred's result is consumed or dropped; the task is gone
Reap(e) ==
  /\ ev[e].pc \in {"done", "failed"}
  /\ ev' = [ev EXCEPT ![e] = Idle]
  /\ UNCHANGED <<text, parsed, args, self, last>>

(***************************************************************************)
(* Specifications                                                          *)
(***************************************************************************)
PageSpec == enUS \o NL \o fr \o NL \o ja \o SP \o linux
PageUnion == fr \o SP \o linux \o NL \o fr \o SP \o osx \o NL
PageBlank == fr \o NL \o NL \o de
PageEmpty == <<>>

AllPages == {PageSpec, PageUnion, PageBlank, PageEmpty}

AllChoices ==
  [revision : {"None", "", "rev1"},
   set_props : {None, Some("Properties", RevisionProps), Some("Properties", LocaleProps)}]

\* one controller, any configuration, one triggering event at a time
Next ==
  \/ Construct(AllArgs)
  \/ getLocalesCall
  \/ trigger(1, AllChoices)
  \/ FetchSucceeds(1, AllPages)
  \/ FetchFails(1)
  \/ Skip(1)
  \/ Submit(1)
  \/ SubmitFails(1)
  \/ Finish(1)
  \/ Reap(1)

Spec == Init /\ [][Next]_vars

\* overlapping triggering events on one controller
ConcArgs ==
  Args({linux64}, {"mozilla-central"}, {"default"},
       {None, Some("dict", SpecLocales)}, {None}, {SchedulerProps})

ConcPages == {PageSpec, PageUnion}

ConcChoices ==
  {[revision |-> "None", set_props |-> None],
   [revision |-> "rev1", set_props |-> Some("Properties", RevisionProps)]}

ConcNext ==
  \/ Construct(ConcArgs)
  \/ \E e \in Events :
       \/ trigger(e, ConcChoices)
       \/ FetchSucceeds(e, ConcPages)
       \/ FetchFails(e)
       \/ Skip(e)
       \/ Submit(e)
       \/ SubmitFails(e)
       \/ Finish(e)
       \/ Reap(e)

ConcSpec == Init /\ [][ConcNext]_vars

\* ParseLocalesFile on every text of up to MaxLen characters, and some files
Alphabet == {"a", "b", " ", "\n"}

SampleTexts ==
  { fr \o NL \o ja \o SP \o linux \o SP \o win32 \o NL \o de,
    fr \o SP \o linux \o NL \o fr \o SP \o osx,
    ja \o SP \o macosx64 \o SP \o macosx64 \o NL \o ja \o SP \o linux \o NL,
    fr \o <<"\t">> \o linux \o <<"\r", "\n">> \o de \o NL \o SP \o NL \o ja }

Texts == UNION {[1..n -> Alphabet] : n \in 0..MaxLen} \cup SampleTexts

ParseInit ==
  /\ text \in Texts
  /\ parsed = NotRun
  /\ args = NoArgs
  /\ self = Unbuilt
  /\ ev = [e \in Events |-> Idle]
  /\ last = NotCalled

Parse ==
  /\ parsed = NotRun
  /\ parsed' = ParseLocalesFile(text)
  /\ UNCHANGED <<text, args, self, ev, last>>

ParseNext == Parse

ParseSpec == ParseInit /\ [][ParseNext]_vars

(***************************************************************************)
(* Properties of the fan-out                                               *)
(***************************************************************************)
\* the platform rule as the specification words it
ClaimPlatform(p) ==
  IF StartsWith(p, macosx) THEN osx ELSE IF StartsWith(p, linux) THEN linux ELSE p

\* the locales a fan-out over mapping m on platform plat is to submit
Wanted(m, plat) == {l \in DOMAIN m : l /= enUS /\ (m[l] = <<>> \/ plat \in Range(m[l]))}

\* how many enqueue calls a task has issued for locale l
Calls(task, l) == Cardinality({i \in 1..Len(task.sub) : task.sub[i].locale = l})

\* C1: a fan-out never enqueues en-US or a locale whose non-empty restriction
\* list lacks the normalized platform, never enqueues a locale twice, and when
\* it completes it has enqueued each remaining locale exactly once.
C1_FanOutFilter ==
  \A e \in Events :
    LET task == ev[e]
        want == Wanted(task.locales, ClaimPlatform(args.platform))
    IN  /\ \A i \in 1..Len(task.sub) : task.sub[i].locale \in want
        /\ \A l \in want : Calls(task, l) <= 1
        /\ task.pc = "done" => \A l \in want : Calls(task, l) = 1

C1_Witness ==
  /\ args.platform = macosx64
  /\ ev[1].pc = "done"
  /\ ev[1].locales = SpecLocales
  /\ Len(ev[1].sub) = 1
  /\ ev[1].sub[1].locale = fr

\* C2: every enqueued property set has locale = the locale submitted and
\* en_revision = l10n_revision = the configured base tag, whatever the
\* scheduler's properties, set_props and the event's revision hold.
C2_ForcedProperties ==
  \A e \in Events : \A i \in 1..Len(ev[e].sub) :
    LET call == ev[e].sub[i] IN
    /\ {"locale", "en_revision", "l10n_revision"} \subseteq DOMAIN call.props
    /\ call.props["locale"].value = call.locale
    /\ call.props["en_revision"].value = args.baseTag
    /\ call.props["l10n_revision"].value = args.baseTag

C2_Witness ==
  /\ ev[1].revision = "rev1"
  /\ ev[1].set_props = Some("Properties", LocaleProps)
  /\ "locale" \in DOMAIN args.properties
  /\ Len(ev[1].sub) >= 1
  /\ ev[1].sub[1].props["en_revision"] = Prop(args.baseTag, "L10nMixin")

\* C3: a task whose fetch failed is failed with the fetch error, has issued
\* no enqueue call, never entered an interaction, and fetched only once.
C3_FetchFailureAborts ==
  \A e \in Events :
    ev[e].error = "FetchError" =>
      /\ ev[e].pc = "failed"
      /\ ev[e].sub = <<>>
      /\ ev[e].scopes = 0
      /\ ev[e].nfetch = 1

C3_Witness == ev[1].error = "FetchError" /\ ev[1].revision = "rev1"

\* C4: with a locales mapping configured (an empty one included) getLocales
\* returns that mapping and nothing is fetched.
C4_ConfiguredMappingNeverFetches ==
  (Built /\ args.locales.kind = "dict") =>
    /\ last.kind /= "NotCalled" => (last.kind = "dict" /\ last.val = args.locales.val)
    /\ \A e \in Events :
         /\ ev[e].nfetch = 0
         /\ ev[e].pc /= "idle" => ev[e].locales = args.locales.val

\* C7: with a supported platform and no localesURL, construction fails when
\* neither branch nor locales is given and succeeds when locales is given
\* without a branch; an unsupported platform always fails.
C7_LocalesSufficeWithoutBranch ==
  self /= Unbuilt =>
    /\ args.platform \notin SupportedPlatforms => self.error = "AssertionError"
    /\ (args.platform \in SupportedPlatforms /\ args.localesURL = None) =>
         /\ (args.branch = "None" /\ args.locales = None) => self.error = "AssertionError"
         /\ args.locales /= None => Built

\* C8: with a non-empty locales mapping configured, the object's locales,
\* platform, branch and base tag stay as constructed, and every getLocales
\* call, direct or from a fan-out, returns the configured mapping.
C8_ConfigurationIsStable ==
  (Built /\ Truthy(args.locales)) =>
    /\ self.value.locales = args.locales
    /\ self.value.platform = ClaimPlatform(args.platform)
    /\ self.value.branch = args.branch
    /\ self.value.baseTag = args.baseTag
    /\ last.kind /= "NotCalled" => (last.kind = "dict" /\ last.val = args.locales.val)
    /\ \A e \in Events : ev[e].pc /= "idle" => ev[e].locales = args.locales.val

C8_Witness ==
  /\ Truthy(args.locales)
  /\ last.kind = "dict"
  /\ ev[1].pc = "done"
  /\ Len(ev[1].sub) >= 2

IsPrefix(s, t) == Len(s) <= Len(t) /\ SubSeq(t, 1, Len(s)) = s

\* C9: in every step of a task the enqueue calls grow by at most one, only
\* inside the task's single interaction (entered after the locales are
\* resolved); a failed enqueue call fails the task, after which nothing more
\* is enqueued, and no call already issued is ever taken back.
C9_SequentialFailFast ==
  [][\A e \in Events :
       LET a == ev[e]
           b == ev'[e]
       IN  /\ b.scopes <= 1
           /\ b.pc /= "idle" =>
                /\ IsPrefix(a.sub, b.sub)
                /\ Len(b.sub) <= Len(a.sub) + 1
                /\ Len(b.sub) > Len(a.sub) =>
                     (a.pc = "interaction" /\ a.scopes = 1 /\ a.error = "None"
                        /\ b.sub[Len(b.sub)].t = 1
                        /\ b.sub[Len(b.sub)].locale \in DOMAIN a.locales)
                /\ a.error /= "None" => (a.pc = "failed" /\ b = a)
                /\ (a.pc = "interaction" /\ b.error /= "None") =>
                     (b.pc = "failed" /\ b.error = "EnqueueError" /\ b.sub = a.sub)
    ]_vars

C9_Witness ==
  /\ ev[1].pc = "failed"
  /\ ev[1].error = "EnqueueError"
  /\ Len(ev[1].sub) >= 1
  /\ Cardinality({l \in ev[1].todo : ~ShouldSkip(self.value, ev[1].locales, l)}) >= 2

\* the enqueue calls a task issues when it runs alone to completion
Alone(s, task) ==
  {Buildset(s, [task EXCEPT !.scopes = 1], l) :
     l \in {k \in DOMAIN task.locales : ~ShouldSkip(s, task.locales, k)}}

\* C10: with fan-outs of several events interleaved, each task fetched once,
\* from the page of its own revision (the base tag when it has none), resolved
\* its locales from the page delivered to it, and when done has issued exactly
\* the calls it issues alone; the object stays as constructed.
C10_EventsAreIndependent ==
  Built =>
    /\ self = L10nMixin_init(args)
    /\ \A e \in Events :
         LET task == ev[e] IN
         /\ task.pc /= "idle" =>
              IF Truthy(args.locales)
              THEN task.nfetch = 0 /\ task.locales = args.locales.val
              ELSE /\ task.nfetch = 1
                   /\ task.url = Expand(self.value.localesURL,
                                        IF task.revision \in {"None", ""}
                                        THEN args.baseTag ELSE task.revision)
                   /\ task.pc \in {"interaction", "done"} =>
                        task.locales = ParseLocalesFile(task.page).value
         /\ task.pc = "done" => Range(task.sub) = Alone(self.value, task)
         /\ task.pc = "done" => Len(task.sub) = Cardinality(Alone(self.value, task))

C10_Witness ==
  /\ ev[1].pc = "done"
  /\ ev[2].pc = "interaction"
  /\ ev[1].revision = "rev1"
  /\ ev[2].revision = "None"
  /\ ev[1].page = PageSpec
  /\ ev[2].page = PageUnion
  /\ Len(ev[1].sub) = 2
  /\ Len(ev[2].sub) = 1

(***************************************************************************)
(* Properties of ParseLocalesFile                                          *)
(***************************************************************************)
\* C5: ParseLocalesFile returns a mapping for every text, no key of it is
\* empty, and a text that is empty once stripped gives the empty mapping.
C5_ParseNeverFails ==
  parsed /= NotRun =>
    /\ parsed.error = "None"
    /\ <<>> \notin DOMAIN parsed.value
    /\ Strip(text) = <<>> => parsed.value = NoLocales

\* the token lists of the lines of the stripped text that have a token
TokenLines(data) ==
  LET lines == SplitLines(Strip(data), <<>>)
  IN  {SplitWords(lines[i], <<>>) : i \in 1..Len(lines)} \ {<<>>}

\* C6: a mapping ParseLocalesFile returns has one entry per distinct first
\* token, and each entry holds exactly the platform tokens of all the lines
\* that start with its locale, as written.
C6_UnionAcrossLines ==
  (parsed /= NotRun /\ parsed.error = "None") =>
    /\ DOMAIN parsed.value = {toks[1] : toks \in TokenLines(text)}
    /\ \A locale \in DOMAIN parsed.value :
         Range(parsed.value[locale]) =
           UNION {Range(Tail(toks)) : toks \in {t \in TokenLines(text) : t[1] = locale}}

C6_Witness ==
  /\ text = <<"a", " ", "b", "\n", "a", " ", "a">>
  /\ parsed = Return([l \in {<<"a">>} |-> <<<<"b">>, <<"a">>>>])

====
